---- MODULE Spec2Model ----
(***************************************************************************)
(* Model of html_to_pdf_converter.py: the module-level backend probe, the  *)
(* HTMLToPDFConverter class (single-file, string and batch conversion),    *)
(* create_sample_html_file and the command-line entry point main.          *)
(*                                                                         *)
(* Paths are sequences of tokens.  "/" and "." are tokens of their own;    *)
(* every other token stands for a maximal run of characters that contains  *)
(* neither, so that rfind('/'), rfind('.'), endswith('.html') and lower()  *)
(* are computed on tokens exactly as Python computes them on characters.   *)
(* All paths are relative to the working directory, which is writable.     *)
(***************************************************************************)
EXTENDS Naturals, Sequences, FiniteSets, TLC

VARIABLES libs, PDF_GENERATION_AVAILABLE, PDF_METHOD, fs, converter, last, ncalls

vars == <<libs, PDF_GENERATION_AVAILABLE, PDF_METHOD, fs, converter, last, ncalls>>

\* ------------------------------------------------------------------ bounds
\* Calls of the converter API in one behaviour of Spec.
MaxCalls == 1
\* Entries of the input directory.
MaxEntries == 2

\* ------------------------------------------------------------ Python values
None == <<"None">>
EmptyStr == <<>>

\* ------------------------------------------------------------- path tokens
Sep == "/"
Dot == "."
DotHtml == <<".", "html">>
DotPdf == <<".", "pdf">>

MaxOf(S) == CHOOSE i \in S : \A j \in S : j <= i

\* str.rfind(c), 1-based; 0 when c does not occur (Python's -1).
RFind(s, c) ==
  LET I == {i \in 1..Len(s) : s[i] = c}
  IN  IF I = {} THEN 0 ELSE MaxOf(I)

\* str.rstrip('/')
RStripSep(s) == SubSeq(s, 1, MaxOf({j \in 0..Len(s) : j = 0 \/ s[j] # Sep}))

\* str.lstrip('/') is not used by the code; str.startswith / str.endswith are.
StartsWith(s, pre) == Len(s) >= Len(pre) /\ SubSeq(s, 1, Len(pre)) = pre
EndsWith(s, suf) == Len(s) >= Len(suf) /\ SubSeq(s, Len(s) - Len(suf) + 1, Len(s)) = suf

\* str.lower(), token by token.
LowerTok(t) ==
  CASE t = "HTML" -> "html"
    [] t = "Html" -> "html"
    [] t = "A" -> "a"
    [] OTHER -> t
Lower(s) == [i \in 1..Len(s) |-> LowerTok(s[i])]

\* posixpath.join(a, b)
Join(a, b) ==
  IF StartsWith(b, <<Sep>>) THEN b
  ELSE IF a = EmptyStr \/ EndsWith(a, <<Sep>>) THEN a \o b
  ELSE a \o <<Sep>> \o b

\* posixpath.dirname(p)
Dirname(p) ==
  LET head == SubSeq(p, 1, RFind(p, Sep))
  IN  IF head # EmptyStr /\ (\E k \in 1..Len(head) : head[k] # Sep)
      THEN RStripSep(head) ELSE head

\* posixpath.basename(p)
Basename(p) == SubSeq(p, RFind(p, Sep) + 1, Len(p))

\* pathlib.PurePath(p).name: the last component, trailing separators dropped.
PathName(p) == Basename(RStripSep(p))

\* pathlib.PurePath(p).stem: the name up to its last dot, unless that dot is
\* the first or the last character of the name.
Stem(p) ==
  LET name == PathName(p)
      i == RFind(name, Dot)
  IN  IF 1 < i /\ i < Len(name) THEN SubSeq(name, 1, i - 1) ELSE name

\* The file a path names once the kernel resolved it: empty components
\* (doubled or trailing separators) and "." components are dropped.
RECURSIVE Components(_)
Components(p) ==
  IF p = EmptyStr THEN <<>>
  ELSE LET I == {i \in 1..Len(p) : p[i] = Sep}
           k == IF I = {} THEN Len(p) + 1 ELSE CHOOSE i \in I : \A j \in I : i <= j
           c == SubSeq(p, 1, k - 1)
           rest == Components(SubSeq(p, k + 1, Len(p)))
       IN  IF c = EmptyStr \/ c = <<Dot>> THEN rest ELSE <<c>> \o rest

RECURSIVE JoinComponents(_)
JoinComponents(cs) ==
  IF cs = <<>> THEN EmptyStr
  ELSE IF Len(cs) = 1 THEN cs[1]
  ELSE cs[1] \o <<Sep>> \o JoinComponents(Tail(cs))

Resolve(p) == JoinComponents(Components(p))

\* --------------------------------------------------------------- filesystem
\* fs.dirs and fs.files hold resolved paths; fs.pdfs records, for every PDF
\* written, the source it was last rendered from.  Operators that use a
\* computed value more than once take it as a parameter.

\* os.path.exists(p)
ExistsResolved(f, p, rp) == p # EmptyStr /\ (rp = EmptyStr \/ rp \in f.dirs \cup f.files)
Exists(f, p) == ExistsResolved(f, p, Resolve(p))

\* os.makedirs(p, exist_ok=True): mkdir of every missing ancestor, then of p.
MakedirsChain(f, p, cs) ==
  IF p = EmptyStr
    THEN [exc |-> "FileNotFoundError", fs |-> f]
  ELSE IF \E n \in 1..(Len(cs) - 1) : JoinComponents(SubSeq(cs, 1, n)) \in f.files
    THEN [exc |-> "NotADirectoryError", fs |-> f]
  ELSE IF JoinComponents(cs) \in f.files
    THEN [exc |-> "FileExistsError", fs |-> f]
  ELSE [exc |-> "",
        fs |-> [f EXCEPT !.dirs = @ \cup {JoinComponents(SubSeq(cs, 1, n)) : n \in 1..Len(cs)}]]
Makedirs(f, p) == MakedirsChain(f, p, Components(p))

\* The backend opening output_pdf_path for writing and writing the PDF of src.
WriteResolved(f, rout, parent, src) ==
  IF rout \in f.dirs \/ rout = EmptyStr
    THEN [exc |-> "IsADirectoryError", fs |-> f]
  ELSE IF parent # EmptyStr /\ parent \notin f.dirs
    THEN [exc |-> "FileNotFoundError", fs |-> f]
  ELSE [exc |-> "",
        fs |-> [f EXCEPT !.files = @ \cup {rout},
                         !.pdfs = {r \in @ : r.path # rout}
                                    \cup {[path |-> rout, src |-> src]}]]
WritePdf(f, out, src) == WriteResolved(f, Resolve(out), Resolve(Dirname(out)), src)

\* --------------------------------------------------------- backend selector
Libraries == {"weasyprint", "reportlab", "bs4"}

\* The module-level probe: PDF_METHOD for the importable libraries.
ProbeMethod(ls) ==
  IF "weasyprint" \in ls THEN "weasyprint"
  ELSE IF "reportlab" \in ls THEN "reportlab"
  ELSE "None"

ProbeAvailable(ls) == ProbeMethod(ls) # "None"

\* ---------------------------------------------------------------- converter
\* What a call does: exc is the class of the exception raised ("" when the
\* call returns), msg tells which raise it was, ret the value returned.
Raise(exc, msg, f) == [exc |-> exc, msg |-> msg, ret |-> None, fs |-> f]
Return(v, f) == [exc |-> "", msg |-> "", ret |-> v, fs |-> f]

\* How the backend fares on a source: "ok", "unreadable" (the file cannot be
\* read or decoded) or "unrenderable" (the renderer raises on its content).
SrcKinds == {"ok", "unreadable", "unrenderable"}

\* HTMLToPDFConverter.__init__ with ensure_output_directory
ConverterMade(output_directory, mk) ==
  IF mk.exc # "" THEN Raise(mk.exc, "makedirs", mk.fs)
  ELSE Return([output_directory |-> output_directory], mk.fs)
NewConverter(output_directory, f) ==
  ConverterMade(output_directory, Makedirs(f, output_directory))

\* The tail of each backend method: the PDF is written, the path returned.
Written(w, output_pdf_path) ==
  IF w.exc # "" THEN Raise(w.exc, "write", w.fs) ELSE Return(output_pdf_path, w.fs)

\* The body of each backend method after its os.makedirs: render, then write.
RenderAndWrite(mk, src, output_pdf_path, kind) ==
  IF mk.exc # "" THEN Raise(mk.exc, "makedirs", mk.fs)
  ELSE IF kind # "ok" THEN Raise("Exception", "render", mk.fs)
  ELSE Written(WritePdf(mk.fs, output_pdf_path, src), output_pdf_path)

ConvertWithWeasyprintFile(html_file_path, output_pdf_path, f, kind) ==
  IF PDF_METHOD # "weasyprint" THEN Raise("RuntimeError", "weasyprint_missing", f)
  ELSE RenderAndWrite(Makedirs(f, Dirname(output_pdf_path)),
                      html_file_path, output_pdf_path, kind)

ConvertWithWeasyprintString(html_content, output_pdf_path, f, kind) ==
  IF PDF_METHOD # "weasyprint" THEN Raise("RuntimeError", "weasyprint_missing", f)
  ELSE RenderAndWrite(Makedirs(f, Dirname(output_pdf_path)),
                      html_content, output_pdf_path, kind)

ConvertWithReportlabString(html_content, output_pdf_path, f, kind) ==
  IF ~({"bs4", "reportlab"} \subseteq libs)
    THEN Raise("RuntimeError", "libraries_missing", f)
  ELSE RenderAndWrite(Makedirs(f, Dirname(output_pdf_path)),
                      html_content, output_pdf_path, kind)

ConvertWithReportlabFile(html_file_path, output_pdf_path, f, kind) ==
  IF Resolve(html_file_path) \in f.dirs THEN Raise("IsADirectoryError", "read", f)
  ELSE IF kind = "unreadable" THEN Raise("UnicodeDecodeError", "read", f)
  ELSE ConvertWithReportlabString(html_file_path, output_pdf_path, f, kind)

\* A variant that keeps the extension of the input name (name for stem).
DefaultPdfPath_KeepsExtension(self, html_file_path) ==
  Join(self.output_directory, PathName(html_file_path) \o DotPdf)

\* The generated output path when none is given.
DefaultPdfPath(self, html_file_path) ==
  Join(self.output_directory, Stem(html_file_path) \o DotPdf)

\* The try block of convert_html_file_to_pdf: dispatch on PDF_METHOD.
DispatchFile(html_file_path, out, f, kind) ==
  IF PDF_METHOD = "weasyprint"
    THEN ConvertWithWeasyprintFile(html_file_path, out, f, kind)
  ELSE IF PDF_METHOD = "reportlab"
    THEN ConvertWithReportlabFile(html_file_path, out, f, kind)
  ELSE Raise("RuntimeError", "unknown_method", f)

\* A variant without the os.path.exists check.
ConvertHtmlFileToPdf_NoExistsCheck(self, html_file_path, output_pdf_path, f, kind) ==
  IF ~PDF_GENERATION_AVAILABLE THEN Raise("RuntimeError", "unavailable", f)
  ELSE DispatchFile(html_file_path,
                    IF output_pdf_path = None THEN DefaultPdfPath(self, html_file_path)
                    ELSE output_pdf_path,
                    f, kind)

ConvertHtmlFileToPdf(self, html_file_path, output_pdf_path, f, kind) ==
  IF ~PDF_GENERATION_AVAILABLE THEN Raise("RuntimeError", "unavailable", f)
  ELSE IF ~Exists(f, html_file_path) THEN Raise("FileNotFoundError", "html_missing", f)
  ELSE DispatchFile(html_file_path,
                    IF output_pdf_path = None THEN DefaultPdfPath(self, html_file_path)
                    ELSE output_pdf_path,
                    f, kind)

\* A variant without the PDF_GENERATION_AVAILABLE check.
ConvertHtmlStringToPdf_NoAvailabilityCheck(self, html_content, output_pdf_path, f, kind) ==
  IF PDF_METHOD = "weasyprint"
    THEN ConvertWithWeasyprintString(html_content, output_pdf_path, f, kind)
  ELSE IF PDF_METHOD = "reportlab"
    THEN ConvertWithReportlabString(html_content, output_pdf_path, f, kind)
  ELSE Raise("RuntimeError", "unknown_method", f)

ConvertHtmlStringToPdf(self, html_content, output_pdf_path, f, kind) ==
  IF ~PDF_GENERATION_AVAILABLE THEN Raise("RuntimeError", "unavailable", f)
  ELSE IF PDF_METHOD = "weasyprint"
    THEN ConvertWithWeasyprintString(html_content, output_pdf_path, f, kind)
  ELSE IF PDF_METHOD = "reportlab"
    THEN ConvertWithReportlabString(html_content, output_pdf_path, f, kind)
  ELSE Raise("RuntimeError", "unknown_method", f)

\* ------------------------------------------------------------- batch runner
\* A variant that compares without lower().
IsHtmlName_CaseSensitive(n) == EndsWith(n, DotHtml)

\* f.lower().endswith('.html')
IsHtmlName(n) == EndsWith(Lower(n), DotHtml)

\* The names os.listdir(dir) returns, in some order.
EntriesUnder(f, rdir) == {Basename(y) : y \in {x \in f.dirs \cup f.files : Dirname(x) = rdir}}
ListEntries(f, dir) == EntriesUnder(f, Resolve(dir))

\* results[key] = val on an insertion-ordered dict.
DictSet(d, k, v) ==
  IF \E i \in 1..Len(d) : d[i].key = k
    THEN [i \in 1..Len(d) |-> IF d[i].key = k THEN [key |-> k, val |-> v] ELSE d[i]]
    ELSE Append(d, [key |-> k, val |-> v])

\* f"Error: {str(e)}"
ErrorString(r) == <<"Error:", r.exc, r.msg>>

\* v.startswith("Error:")
IsErrorString(v) == StartsWith(v, <<"Error:">>)

KindOf(kinds, name) == IF name \in DOMAIN kinds THEN kinds[name] ELSE "ok"

\* The key and the PDF path the loop computes for one listed name.
BatchHtmlPath(html_directory, html_file) == Join(html_directory, html_file)
BatchPdfPath(output_directory, html_file) ==
  Join(output_directory, Stem(html_file) \o DotPdf)

\* The try/except of one iteration: the entry recorded for the conversion r.
BatchRecord(acc, html_path, pdf_path, r) ==
  [results |-> DictSet(acc.results, html_path,
                       IF r.exc = "" THEN r.ret ELSE ErrorString(r)),
   calls |-> Append(acc.calls, [html |-> html_path, pdf |-> pdf_path, exc |-> r.exc]),
   fs |-> r.fs]

\* The conversion of one iteration, with the paths the loop computed.
BatchConvertOne(self, html_path, pdf_path, acc, kind) ==
  BatchRecord(acc, html_path, pdf_path,
              ConvertHtmlFileToPdf(self, html_path, pdf_path, acc.fs, kind))

\* One iteration of the for loop.
BatchStep(self, html_directory, output_directory, html_file, acc, kinds) ==
  BatchConvertOne(self, BatchHtmlPath(html_directory, html_file),
                  BatchPdfPath(output_directory, html_file), acc,
                  KindOf(kinds, html_file))

\* A variant whose loop ends at the first failed conversion (no try/except).
RECURSIVE BatchLoop_StopsAtFailure(_, _, _, _, _, _)
BatchLoop_StopsAtFailure(self, html_directory, output_directory, html_files, acc, kinds) ==
  IF html_files = <<>> THEN acc
  ELSE IF acc.calls # <<>> /\ acc.calls[Len(acc.calls)].exc # "" THEN acc
  ELSE BatchLoop_StopsAtFailure(self, html_directory, output_directory, Tail(html_files),
                                BatchStep(self, html_directory, output_directory,
                                          Head(html_files), acc, kinds),
                                kinds)

RECURSIVE BatchLoop(_, _, _, _, _, _)
BatchLoop(self, html_directory, output_directory, html_files, acc, kinds) ==
  IF html_files = <<>> THEN acc
  ELSE BatchLoop(self, html_directory, output_directory, Tail(html_files),
                 BatchStep(self, html_directory, output_directory,
                           Head(html_files), acc, kinds),
                 kinds)

BatchResult(exc, msg, acc) ==
  [exc |-> exc, msg |-> msg, ret |-> acc.results, calls |-> acc.calls, fs |-> acc.fs]

BatchStart(f) == [results |-> <<>>, calls |-> <<>>, fs |-> f]

\* batch_convert_html_files after its directory check, over the filtered list.
BatchOver(self, html_directory, output_directory, html_files, f, kinds) ==
  IF html_files = <<>> THEN BatchResult("", "", BatchStart(f))
  ELSE BatchResult("", "", BatchLoop(self, html_directory, output_directory,
                                     html_files, BatchStart(f), kinds))

\* batch_convert_html_files; listing is what os.listdir returns.
BatchConvertHtmlFiles(self, html_directory, output_directory, f, listing, kinds) ==
  IF ~Exists(f, html_directory)
    THEN BatchResult("FileNotFoundError", "dir_missing", BatchStart(f))
  ELSE IF Resolve(html_directory) \in f.files
    THEN BatchResult("NotADirectoryError", "listdir", BatchStart(f))
  ELSE BatchOver(self, html_directory,
                 IF output_directory = None THEN self.output_directory
                 ELSE output_directory,
                 SelectSeq(listing, IsHtmlName), f, kinds)

\* ------------------------------------------------------- sample and main
SampleName == <<"sample_report", ".", "html">>

\* create_sample_html_file(filename): open(filename, 'w') and write.
SampleWritten(filename, rname, f) ==
  IF rname \in f.dirs THEN Raise("IsADirectoryError", "open", f)
  ELSE Return(filename, [f EXCEPT !.files = @ \cup {rname}])
CreateSampleHtmlFile(filename, f) == SampleWritten(filename, Resolve(filename), f)

\* bool(v) of an optional string argument
Truthy(v) == v # None /\ v # EmptyStr

\* The branch of the if/elif chain main takes.
MainMode(args) ==
  IF args.create_sample THEN "sample"
  ELSE IF Truthy(args.html) THEN "single"
  ELSE IF Truthy(args.batch) THEN "batch"
  ELSE "noop"

MainResult(exc, mode, printed, f) ==
  [exc |-> exc, mode |-> mode, printed |-> printed, fs |-> f]

\* A conversion in a try/except of main: its outcome is printed, never raised.
MainPrinted(mode, r, okMsg, failMsg, before) ==
  MainResult("", mode, before \o <<IF r.exc = "" THEN okMsg ELSE failMsg>>, r.fs)

\* The sample branch: the write is outside the try, the conversion inside.
MainSampleConvert(conv, s, kinds) ==
  IF s.exc # "" THEN MainResult(s.exc, "sample", <<>>, s.fs)
  ELSE MainPrinted("sample",
                   ConvertHtmlFileToPdf(conv, s.ret, None, s.fs, KindOf(kinds, SampleName)),
                   "sample_pdf", "sample_failed", <<"sample_created">>)
MainSample(conv, args, f, kinds) ==
  MainSampleConvert(conv, CreateSampleHtmlFile(SampleName, f), kinds)

MainSingle(conv, args, f, kinds) ==
  MainPrinted("single",
              ConvertHtmlFileToPdf(conv, args.html, args.output, f,
                                   KindOf(kinds, PathName(args.html))),
              "single_ok", "single_failed", <<>>)

\* The batch branch: the summary line, then one status line per entry.
MainBatchPrinted(r) ==
  MainResult("", "batch",
             IF r.exc # "" THEN <<"batch_failed">>
             ELSE <<"batch_summary">> \o
                  [i \in 1..Len(r.ret) |->
                     IF IsErrorString(r.ret[i].val) THEN "file_failed" ELSE "file_ok"],
             r.fs)
MainBatch(conv, args, f, listing, kinds) ==
  MainBatchPrinted(BatchConvertHtmlFiles(conv, args.batch, args.output_dir, f,
                                         listing, kinds))

\* main() once the converter is built: the if/elif chain.
MainDispatch(c, mode, args, listing, kinds) ==
  IF c.exc # "" THEN MainResult(c.exc, "", <<>>, c.fs)
  ELSE IF mode = "sample" THEN MainSample(c.ret, args, c.fs, kinds)
  ELSE IF mode = "single" THEN MainSingle(c.ret, args, c.fs, kinds)
  ELSE IF mode = "batch" THEN MainBatch(c.ret, args, c.fs, listing, kinds)
  ELSE MainResult("", "noop", <<"usage">>, c.fs)

\* main(): the converter is built before, and outside, every try.
MainRun(args, f, listing, kinds) ==
  MainDispatch(NewConverter(args.output_dir, f), MainMode(args), args, listing, kinds)

\* ------------------------------------------------------------------ inputs
InDir == <<"d">>
Names == {<<"a", ".", "html">>, <<"a", ".", "HTML">>, <<"a", ".", "b", ".", "html">>,
          <<".", "html">>, <<"n", ".", "txt">>}
HtmlPathInputs == {Join(InDir, n) : n \in Names}
OutPathInputs == {<<"x", ".", "pdf">>, <<"o", "/", "x", ".", "pdf">>,
                  <<"p", "/", "q", "/", "x", ".", "pdf">>}
OutputDirInputs == {<<"o">>, <<"o", "/">>, EmptyStr}
BatchDirInputs == {InDir, <<"m">>, Join(InDir, <<"n", ".", "txt">>)}
BatchOutDirInputs == {None, <<"q">>, EmptyStr}
HtmlContent == <<"<inline html>">>

\* Every order os.listdir may return the set S in.
Orders(S) ==
  {q \in [1..Cardinality(S) -> S] : \A i, j \in 1..Cardinality(S) : q[i] = q[j] => i = j}

NoConverter == [output_directory |-> None]
NoCall == [op |-> "none", args |-> <<>>, pre |-> <<>>, res |-> <<>>]

\* ----------------------------------------------------------------- actions
\* Process start: the import-time probe has run over the importable
\* libraries; the input directory holds some files; nothing was called yet.
Init ==
  /\ libs \in SUBSET Libraries
  /\ PDF_METHOD = ProbeMethod(libs)
  /\ PDF_GENERATION_AVAILABLE = ProbeAvailable(libs)
  /\ \E entries \in {S \in SUBSET Names : Cardinality(S) <= MaxEntries} :
       fs = [dirs |-> {InDir}, files |-> {Join(InDir, n) : n \in entries}, pdfs |-> {}]
  /\ converter = NoConverter
  /\ last = NoCall
  /\ ncalls = 0

Globals == <<libs, PDF_GENERATION_AVAILABLE, PDF_METHOD>>

\* converter = HTMLToPDFConverter(output_directory)
Construct ==
  /\ converter = NoConverter
  /\ \E od \in OutputDirInputs :
       LET r == NewConverter(od, fs)
       IN  /\ converter' = IF r.exc = "" THEN r.ret ELSE NoConverter
           /\ fs' = r.fs
           /\ last' = [op |-> "construct", args |-> [output_directory |-> od],
                       pre |-> fs, res |-> [r EXCEPT !.fs = <<>>]]
  /\ UNCHANGED <<Globals, ncalls>>

\* converter.convert_html_file_to_pdf(html, out)
ConvertFileCall ==
  /\ converter # NoConverter
  /\ ncalls < MaxCalls
  /\ \E html \in HtmlPathInputs, out \in OutPathInputs \cup {None}, kind \in SrcKinds :
       LET r == ConvertHtmlFileToPdf(converter, html, out, fs, kind)
       IN  /\ fs' = r.fs
           /\ last' = [op |-> "convertFile",
                       args |-> [html |-> html, out |-> out, kind |-> kind],
                       pre |-> fs, res |-> [r EXCEPT !.fs = <<>>]]
  /\ ncalls' = ncalls + 1
  /\ UNCHANGED <<Globals, converter>>

\* converter.convert_html_string_to_pdf(content, out)
ConvertStringCall ==
  /\ converter # NoConverter
  /\ ncalls < MaxCalls
  /\ \E out \in OutPathInputs, kind \in {"ok", "unrenderable"} :
       LET r == ConvertHtmlStringToPdf(converter, HtmlContent, out, fs, kind)
       IN  /\ fs' = r.fs
           /\ last' = [op |-> "convertString",
                       args |-> [html |-> HtmlContent, out |-> out, kind |-> kind],
                       pre |-> fs, res |-> [r EXCEPT !.fs = <<>>]]
  /\ ncalls' = ncalls + 1
  /\ UNCHANGED <<Globals, converter>>

HtmlEntries(f, dir) == {n \in ListEntries(f, dir) : IsHtmlName(n)}

\* converter.batch_convert_html_files(dir, outdir): one run per behaviour.
BatchCall ==
  /\ converter # NoConverter
  /\ last.op # "batch"
  /\ \E dir \in BatchDirInputs, od \in BatchOutDirInputs :
     \E listing \in Orders(ListEntries(fs, dir)) :
     \E kinds \in [HtmlEntries(fs, dir) -> SrcKinds] :
       LET r == BatchConvertHtmlFiles(converter, dir, od, fs, listing, kinds)
       IN  /\ fs' = r.fs
           /\ last' = [op |-> "batch",
                       args |-> [dir |-> dir, outdir |-> od, listing |-> listing,
                                 kinds |-> kinds],
                       pre |-> fs, res |-> [r EXCEPT !.fs = <<>>]]
  /\ UNCHANGED <<Globals, converter, ncalls>>

MainArgs ==
  [create_sample : BOOLEAN,
   html : {None, EmptyStr, Join(InDir, <<"a", ".", "html">>)},
   output : {None, <<"x", ".", "pdf">>},
   batch : {None, EmptyStr, InDir},
   output_dir : {<<"o">>, EmptyStr, SampleName}]

\* The names whose conversion a run of main may attempt.
MainSources(args, f) ==
  IF MainMode(args) = "sample" THEN {SampleName}
  ELSE IF MainMode(args) = "single" THEN {PathName(args.html)}
  ELSE IF MainMode(args) = "batch" THEN HtmlEntries(f, args.batch)
  ELSE {}

\* One run of the program: main() from process start to its end.
MainCall ==
  /\ last.op = "none"
  /\ \E args \in MainArgs :
     \E listing \in Orders(IF MainMode(args) = "batch"
                           THEN ListEntries(fs, args.batch) ELSE {}) :
     \E kinds \in [MainSources(args, fs) -> SrcKinds] :
       LET r == MainRun(args, fs, listing, kinds)
       IN  /\ fs' = r.fs
           /\ last' = [op |-> "main",
                       args |-> [args |-> args, listing |-> listing, kinds |-> kinds],
                       pre |-> fs, res |-> [r EXCEPT !.fs = <<>>]]
  /\ UNCHANGED <<Globals, converter, ncalls>>

\* The converter API: construction, then single-file and string conversions.
Next == Construct \/ ConvertFileCall \/ ConvertStringCall
Spec == Init /\ [][Next]_vars

\* The batch runner: construction, then one directory conversion.
NextBatch == Construct \/ BatchCall
SpecBatch == Init /\ [][NextBatch]_vars

\* The command line: one run of main.
NextMain == MainCall
SpecMain == Init /\ [][NextMain]_vars

\* ------------------------------------------------------------------ claims
IsConvertCall == last.op \in {"convertFile", "convertString"}
Unavailable(r) == r.exc = "RuntimeError" /\ r.msg = "unavailable"
NotFound(r) == r.exc = "FileNotFoundError" /\ r.msg = "html_missing"

\* C1 as stated: a convertFile call whose htmlPath does not exist fails with
\* NotFound in every backend state, the state with no backend included.
C1_AlwaysNotFound ==
  (last.op = "convertFile" /\ ~Exists(last.pre, last.args.html)) => NotFound(last.res)

\* C1 (amended): a convertFile call whose htmlPath does not exist fails with
\* NotFound when a backend (full or fallback) is selected, and with
\* Unavailable when none is; it never fails with a backend error.
C1_NotFoundUnderBackend ==
  (last.op = "convertFile" /\ ~Exists(last.pre, last.args.html)) =>
    /\ PDF_METHOD \in {"weasyprint", "reportlab"} => NotFound(last.res)
    /\ PDF_METHOD = "None" => Unavailable(last.res)

C1_Witness ==
  /\ last.op = "convertFile"
  /\ ~Exists(last.pre, last.args.html)
  /\ PDF_METHOD = "reportlab"
  /\ last.args.out = None
  /\ NotFound(last.res)

\* C2: convertFile and convertString never fail in the step that ensures the
\* parent directory of outputPath, whatever outputPath is, a bare file name
\* included.
C2_DirectoryStepNeverFails == IsConvertCall => last.res.msg # "makedirs"

\* The claims' own reading of "a name that ends in .html, case-insensitively".
EndsInDotHtmlAnyCase(n) ==
  /\ Len(n) >= 2
  /\ n[Len(n) - 1] = Dot
  /\ n[Len(n)] \in {"html", "HTML", "Html"}

Discovered(f, dir) == {n \in ListEntries(f, dir) : EndsInDotHtmlAnyCase(n)}

\* C3: in a batch run that returns, every discovered .html file is converted,
\* in listing order, whichever of the other conversions failed, and every file
\* whose own conversion succeeded has its output path, not an error string, as
\* its report entry.
C3_FailureDoesNotStopLoop ==
  (last.op = "batch" /\ last.res.exc = "") =>
    LET found == SelectSeq(last.args.listing, EndsInDotHtmlAnyCase)
        calls == last.res.calls
        results == last.res.ret
    IN  /\ Len(calls) = Len(found)
        /\ \A i \in 1..Len(calls) :
             /\ calls[i].html = Join(last.args.dir, found[i])
             /\ calls[i].exc = "" =>
                  \E j \in 1..Len(results) :
                    /\ results[j].key = calls[i].html
                    /\ results[j].val = calls[i].pdf
                    /\ ~IsErrorString(results[j].val)

C3_Witness ==
  /\ last.op = "batch"
  /\ last.res.exc = ""
  /\ Len(last.res.calls) = 2
  /\ last.res.calls[1].exc # ""
  /\ last.res.calls[2].exc = ""
  /\ ~IsErrorString(last.res.ret[2].val)

\* C4: over an existing input directory with N entries whose name ends in
\* .html (case-insensitively) and M others, the batch run returns without
\* raising a report of exactly N entries, one per discovered file, no two with
\* the same key; for N = 0 the report is empty.
C4_ExactlyNEntries ==
  (last.op = "batch" /\ Resolve(last.args.dir) \in last.pre.dirs) =>
    LET found == Discovered(last.pre, last.args.dir)
        results == last.res.ret
    IN  /\ last.res.exc = ""
        /\ Len(results) = Cardinality(found)
        /\ \A i, j \in 1..Len(results) : results[i].key = results[j].key => i = j
        /\ {results[i].key : i \in 1..Len(results)}
             = {last.args.dir \o <<Sep>> \o n : n \in found}

C4_Witness ==
  /\ last.op = "batch"
  /\ Resolve(last.args.dir) \in last.pre.dirs
  /\ Cardinality(Discovered(last.pre, last.args.dir)) = 2
  /\ \E n \in Discovered(last.pre, last.args.dir) : n[Len(n)] = "HTML"
  /\ Len(last.res.ret) = 2
  /\ IsErrorString(last.res.ret[1].val)

C4_WitnessEmpty ==
  /\ last.op = "batch"
  /\ Resolve(last.args.dir) \in last.pre.dirs
  /\ ListEntries(last.pre, last.args.dir) # {}
  /\ Discovered(last.pre, last.args.dir) = {}
  /\ last.res.exc = "" /\ last.res.ret = <<>>

\* C5: when neither backend was found, every convertFile and convertString
\* call fails with Unavailable and leaves the filesystem as it was; and no
\* operation ever changes the selection made at process start.
C5_UnavailableAndImmutable ==
  /\ []((PDF_METHOD = "None" /\ IsConvertCall) =>
          (Unavailable(last.res) /\ fs = last.pre))
  /\ [][PDF_METHOD' = PDF_METHOD /\ PDF_GENERATION_AVAILABLE' = PDF_GENERATION_AVAILABLE]_vars

C5_Witness ==
  /\ PDF_METHOD = "None"
  /\ last.op = "convertString"
  /\ Unavailable(last.res)

\* C6: the fallback backend is selected only when both the tag-stripping
\* parser and the PDF writer can be loaded, so under a selected fallback no
\* conversion fails for a missing library.
C6_FallbackNeedsBothComponents ==
  /\ PDF_METHOD = "reportlab" => {"bs4", "reportlab"} \subseteq libs
  /\ (PDF_METHOD = "reportlab" /\ IsConvertCall) => last.res.msg # "libraries_missing"

\* The claims' own reading of "the file name" and "without its last extension".
LastComponent(p) ==
  CHOOSE n \in {SubSeq(p, i, Len(p)) : i \in 1..Len(p)} :
    /\ \A k \in 1..Len(n) : n[k] # Sep
    /\ (Len(n) = Len(p) \/ p[Len(p) - Len(n)] = Sep)

WithoutLastExtension(n) ==
  IF \E i \in 2..(Len(n) - 1) : n[i] = Dot /\ \A k \in (i + 1)..Len(n) : n[k] # Dot
    THEN SubSeq(n, 1, (CHOOSE i \in 2..(Len(n) - 1) :
                         n[i] = Dot /\ \A k \in (i + 1)..Len(n) : n[k] # Dot) - 1)
    ELSE n

FirstFlagGiven(args) ==
  IF args.create_sample THEN "sample"
  ELSE IF args.html # None THEN "single"
  ELSE IF args.batch # None THEN "batch"
  ELSE "noop"

\* C8: for every combination of --create-sample, --html and --batch, the mode
\* main runs is the first in the order sample, single, batch, no-op whose flag
\* is given; a lower mode never runs when a higher flag is given.
C8_FirstMatchMode ==
  (last.op = "main" /\ last.res.mode # "") =>
    last.res.mode = FirstFlagGiven(last.args.args)

\* C9: every failure of a run of main is caught and printed; no exception
\* escapes main.
C9_NoExceptionEscapesMain == last.op = "main" => last.res.exc = ""

\* C10: in one batch run no two discovered files are given the same output
\* PDF path, so no file's PDF is overwritten by a later file of the batch.
C10_OutputPathsInjective ==
  last.op = "batch" =>
    \A i, j \in 1..Len(last.res.calls) :
      (/\ last.res.calls[i].exc = ""
       /\ last.res.calls[j].exc = ""
       /\ Resolve(last.res.calls[i].pdf) = Resolve(last.res.calls[j].pdf)) => i = j
====
